---- MODULE Spec2Model ----
(***************************************************************************)
(* Product image ordering and synchronisation workflow of remix-crm:       *)
(*   - the client order model of app/components/ProductForm.tsx            *)
(*   - the server action of app/routes/productos.nuevo.tsx                 *)
(* Sizes are counted in units of 1_000_000 bytes.                          *)
(***************************************************************************)
EXTENDS Integers, Sequences, FiniteSets, TLC

(* ------------------------------ bounds --------------------------------- *)
\* largest number of entries the client sequence is allowed to reach
MaxImages == 3
\* largest number of staged entries created over the life of one form
MaxNew == 2
\* largest number of failing store, storage or parsing calls in one submission
MaxFailures == 1
\* largest number of forms submitted through the fetcher of the products page
MaxSubmissions == 2
\* largest number of products matching the filters of a request
MaxProducts == 2

(* --------------------------- program constants ------------------------- *)
MAX_FILE_SIZE == 20
MAX_TOTAL_SIZE == 50

(* ------------------------------ values --------------------------------- *)
\* absent value: undefined / null / missing form field
Nil == -1

\* JSON null: the value the loader returns for a column that holds no value
Null == -2

\* the product being edited and another product of the store
P1 == 1
P2 == 2

\* image rows that may be persisted before the form opens: E1, E2 belong to
\* P1, X1 belongs to P2
E1 == 11
E2 == 12
X1 == 21

\* the files a user can pick: name (dot-separated segments), MIME type
\* (major, minor) and size
Files ==
  { [name |-> <<"a", "png">>,   type |-> <<"image", "png">>, size |-> 1],
    [name |-> <<"big", "png">>, type |-> <<"image", "png">>, size |-> 21],
    [name |-> <<"doc", "txt">>, type |-> <<"text", "plain">>, size |-> 20] }

VARIABLES
  orderedImages,   \* ProductForm state: the ordered entries
  inputFiles,      \* FileList held by the <input name="images">
  defaultId,       \* defaultValues.id (Nil on the create form)
  defaultImages,   \* defaultValues.images, as the loader returned them
  nextNew,         \* number of staged ids generated so far
  lastOp,          \* last client operation applied
  stagedIndex,     \* per submitted file part: the order_index its entry had
  request,         \* the fields of the multipart body sent by the form
  revoked,         \* staged ids whose object URL was passed to revokeObjectURL
  revokedAgain,    \* staged ids whose object URL was revoked when already revoked
  pc,              \* position of the action handling the submission
  formData,        \* the parsed multipart form (<<>> until parsed)
  products,        \* rows of table products
  images,          \* rows of table images
  blobs,           \* objects of bucket product-images (storage paths)
  productResult,   \* productResult.id (Nil until the upsert succeeded)
  chains,          \* one record per imagePromises element
  errorsImages,    \* errors.images assigned at the join of the uploads
  imagesToDelete,  \* rows returned by the deletion lookup
  removed,         \* imagesToDelete elements whose storage promise settled
  imageUpdates,    \* the (id, order_index) pairs collected from the form
  updated,         \* imageUpdates positions whose update promise settled
  response,        \* the response returned by the action
  issued,          \* store and storage calls issued by the action
  failures,        \* number of store or storage calls that returned an error
  failed,          \* the calls of the submission that returned an error
  before,          \* rows and blobs of the store when the request arrived
  page             \* state of the products page

clientVars == <<orderedImages, inputFiles, defaultId, defaultImages, nextNew, lastOp, stagedIndex, request,
                revoked, revokedAgain>>
storeVars == <<products, images, blobs>>
actionVars == <<before, pc, formData, productResult, chains, errorsImages, imagesToDelete,
                removed, imageUpdates, updated, response, issued, failures, failed>>
serverVars == <<storeVars, actionVars>>
vars == <<clientVars, serverVars, page>>

(* ------------------------- client order model -------------------------- *)

\* ids of the entries of a sequence
Ids(list) == { list[k].id : k \in 1..Len(list) }

\* ToNumber of an operand of the subtraction: null is 0
ToNumber(n) == IF n = Null THEN 0 ELSE n

\* comparator of the initial sort; only undefined (Nil) fails the tests
\* !== undefined
Compare(a, b) ==
  IF a.order_index # Nil /\ b.order_index # Nil
  THEN ToNumber(a.order_index) - ToNumber(b.order_index)
  ELSE IF a.order_index # Nil THEN -1
  ELSE IF b.order_index # Nil THEN 1
  ELSE 0

\* stable insertion of x into an already sorted list
RECURSIVE InsertSorted(_, _)
InsertSorted(x, list) ==
  IF list = <<>> THEN <<x>>
  ELSE IF Compare(list[Len(list)], x) <= 0 THEN Append(list, x)
  ELSE Append(InsertSorted(x, SubSeq(list, 1, Len(list) - 1)), list[Len(list)])

\* Array.prototype.sort with Compare (stable)
RECURSIVE SortImages(_)
SortImages(list) ==
  IF list = <<>> THEN <<>>
  ELSE InsertSorted(list[Len(list)], SortImages(SubSeq(list, 1, Len(list) - 1)))

\* img.order_index || 0
OrZero(n) == IF n = Nil \/ n = Null \/ n = 0 THEN 0 ELSE n

\* initial state of orderedImages computed from defaultValues.images
InitialOrderedImages(list) ==
  LET sortedImages == SortImages(list)
  IN [k \in 1..Len(sortedImages) |->
        [id |-> sortedImages[k].id,
         url |-> sortedImages[k].url,
         type |-> "existing",
         order_index |-> OrZero(sortedImages[k].order_index),
         file |-> Nil]]

\* generateUniqueId: the k-th generated id; staged ids never collide with
\* persisted ids
generateUniqueId(k) == 1000 + k

\* a renumbering that starts at 0, as an array index would
RenumberFromZero(list) ==
  [k \in 1..Len(list) |-> [list[k] EXCEPT !.order_index = k - 1]]

\* list.map((img, index) => ({...img, order_index: index + 1}))
Renumber(list) ==
  [k \in 1..Len(list) |-> [list[k] EXCEPT !.order_index = k]]

\* the File object wrapped by a staged entry is held by reference: the
\* k-th file ever selected in the form
FileRef(k) == k

\* staged entries built in the reverse order of the selected files
NewImagesReversed(files, base) ==
  [k \in 1..Len(files) |->
     [id |-> generateUniqueId(base + k),
      url |-> generateUniqueId(base + k),
      type |-> "new",
      order_index |-> 0,
      file |-> FileRef(base + Len(files) + 1 - k)]]

\* staged entries built by handleFileSelect for the selected files
NewImages(files, base) ==
  [k \in 1..Len(files) |->
     [id |-> generateUniqueId(base + k),
      url |-> generateUniqueId(base + k),
      type |-> "new",
      order_index |-> 0,
      file |-> FileRef(base + k)]]

\* result.splice(startIndex, 1): the list without position i (1-based)
RemoveAt(list, i) ==
  [k \in 1..(Len(list) - 1) |-> IF k < i THEN list[k] ELSE list[k + 1]]

\* result.splice(endIndex, 0, removed): x inserted at position j (1-based)
InsertAt(list, j, x) ==
  [k \in 1..(Len(list) + 1) |->
     IF k < j THEN list[k] ELSE IF k = j THEN x ELSE list[k - 1]]

\* a reorder that corrects the insertion position for the removed entry when
\* moving downwards, as an index computed before the removal would need
reorderShifted(list, startIndex, endIndex) ==
  LET moved  == list[startIndex + 1]
      target == IF endIndex > startIndex THEN endIndex ELSE endIndex + 1
      result == InsertAt(RemoveAt(list, startIndex + 1), target, moved)
  IN Renumber(result)

\* reorder(list, startIndex, endIndex), indices 0-based as in the source
reorder(list, startIndex, endIndex) ==
  LET moved  == list[startIndex + 1]
      result == InsertAt(RemoveAt(list, startIndex + 1), endIndex + 1, moved)
  IN Renumber(result)

\* a filter that returns the kept entries in reverse order
RECURSIVE FilterOutReversed(_, _)
FilterOutReversed(list, imageId) ==
  IF list = <<>> THEN <<>>
  ELSE LET rest == FilterOutReversed(SubSeq(list, 1, Len(list) - 1), imageId)
           last == list[Len(list)]
       IN IF last.id # imageId THEN <<last>> \o rest ELSE rest

\* prev.filter(img => img.id !== imageId)
RECURSIVE FilterOut(_, _)
FilterOut(list, imageId) ==
  IF list = <<>> THEN <<>>
  ELSE LET rest == FilterOut(SubSeq(list, 1, Len(list) - 1), imageId)
           last == list[Len(list)]
       IN IF last.id # imageId THEN Append(rest, last) ELSE rest

\* sequences over S of length 0..n
SeqUpTo(S, n) == UNION { [1..m -> S] : m \in 0..n }

\* the persisted image lists the form may be opened with: the rows of the
\* product as the loader selects them, ordered by order_index ascending, rows
\* without a value last (RightSideDrawer.tsx 157-161)
PersistedImage(id, orderIndex) == [id |-> id, url |-> id, order_index |-> orderIndex]

PersistedLists ==
  { <<>>,
    << PersistedImage(E1, 1) >>,
    << PersistedImage(E1, 1), PersistedImage(E2, 2) >>,
    << PersistedImage(E1, Null), PersistedImage(E2, Null) >>,
    << PersistedImage(E1, 1), PersistedImage(E2, Null) >> }

\* the form is rendered: not submitted and not closed
Mounted == pc = "idle" /\ lastOp # "unmount"

\* ids of the staged entries of a sequence
NewIds(list) == { list[k].id : k \in { j \in 1..Len(list) : list[j].type = "new" } }

\* cleanup of the effect on orderedImages: it runs when the state is
\* replaced and at unmount, over the entries of the state it closed over,
\* and revokes the object URL of each staged one
Cleanup ==
  /\ revoked' = revoked \cup NewIds(orderedImages)
  /\ revokedAgain' = revokedAgain \cup (revoked \cap NewIds(orderedImages))

handleFileSelect ==
  /\ Mounted
  /\ UNCHANGED <<page, serverVars>>
  /\ Cleanup
  /\ \E files \in SeqUpTo(Files, MaxImages) :
       /\ Len(orderedImages) + Len(files) <= MaxImages
       /\ nextNew + Len(files) <= MaxNew
       /\ orderedImages' = Renumber(orderedImages \o NewImages(files, nextNew))
       /\ inputFiles' = files
       /\ nextNew' = nextNew + Len(files)
       /\ lastOp' = "add"
       /\ UNCHANGED <<defaultId, defaultImages, stagedIndex, request>>

onDragEnd ==
  /\ Mounted
  /\ UNCHANGED <<page, serverVars>>
  /\ Cleanup
  /\ \E source \in 0..(Len(orderedImages) - 1), destination \in 0..(Len(orderedImages) - 1) :
       /\ orderedImages' = reorder(orderedImages, source, destination)
       /\ lastOp' = "reorder"
       /\ UNCHANGED <<inputFiles, defaultId, defaultImages, nextNew, stagedIndex, request>>

handleRemoveImage ==
  /\ Mounted
  /\ UNCHANGED <<page, serverVars>>
  /\ Cleanup
  /\ \E imageId \in Ids(orderedImages) :
       /\ orderedImages' = Renumber(FilterOut(orderedImages, imageId))
       /\ lastOp' = "remove"
       /\ UNCHANGED <<inputFiles, defaultId, defaultImages, nextNew, stagedIndex, request>>


(* --------------------------- text conversions -------------------------- *)
\* strings are sequences of one-character strings
Digits == <<"0", "1", "2", "3", "4", "5", "6", "7", "8", "9">>

DigitValue(c) == CHOOSE d \in 0..9 : Digits[d + 1] = c

IsDigit(c) == \E d \in 0..9 : Digits[d + 1] = c

\* Number.prototype.toString of a non-negative integer
RECURSIVE toString(_)
toString(n) ==
  IF n < 10 THEN <<Digits[n + 1]>>
  ELSE Append(toString(n \div 10), Digits[(n % 10) + 1])

\* value of a string of decimal digits
RECURSIVE DigitsValue(_)
DigitsValue(s) ==
  IF s = <<>> THEN 0
  ELSE 10 * DigitsValue(SubSeq(s, 1, Len(s) - 1)) + DigitValue(s[Len(s)])

\* length of the longest prefix of s made of digits
RECURSIVE DigitPrefix(_)
DigitPrefix(s) ==
  IF s = <<>> \/ ~IsDigit(s[1]) THEN 0
  ELSE 1 + DigitPrefix(SubSeq(s, 2, Len(s)))

\* parseInt(s, 10) on unsigned input: the leading digits, NaN (Nil) if none
parseInt(s) ==
  IF DigitPrefix(s) = 0 THEN Nil ELSE DigitsValue(SubSeq(s, 1, DigitPrefix(s)))

\* Number(s) on unsigned input: "" is 0, a digit string its value, else NaN
Number(s) ==
  IF DigitPrefix(s) = Len(s) THEN [nan |-> FALSE, value |-> DigitsValue(s)]
  ELSE [nan |-> TRUE, value |-> 0]

\* String.prototype.trim
RECURSIVE TrimLeft(_)
TrimLeft(s) ==
  IF s # <<>> /\ s[1] = " " THEN TrimLeft(SubSeq(s, 2, Len(s))) ELSE s

RECURSIVE TrimRight(_)
TrimRight(s) ==
  IF s # <<>> /\ s[Len(s)] = " " THEN TrimRight(SubSeq(s, 1, Len(s) - 1)) ELSE s

trim(s) == TrimRight(TrimLeft(s))

\* the name and price typed into the form before a submission: nothing,
\* only a price, blanks and a word, a zero price, no price, valid fields
Typed ==
  { << <<>>, <<>> >>,
    << <<>>, <<"5">> >>,
    << <<" ">>, <<"x">> >>,
    << <<" ", "L", " ">>, <<"0">> >>,
    << <<" ", "L", " ">>, <<>> >>,
    << <<" ", "L", " ">>, <<"5">> >> }

(* ------------------------------ form data ------------------------------ *)
\* a field of the form: its name is base, or base[index].prop
Field(base, index, prop, value) ==
  [base |-> base, index |-> index, prop |-> prop, value |-> value]

\* hidden inputs that render an id field for every entry, staged ones too
RECURSIVE HiddenInputsIdForAll(_, _)
HiddenInputsIdForAll(list, n) ==
  IF n = 0 THEN <<>>
  ELSE HiddenInputsIdForAll(list, n - 1)
       \o << Field("images", n - 1, "order_index", toString(list[n].order_index)),
             Field("images", n - 1, "id", <<list[n].id>>) >>

\* the hidden inputs rendered for the entries (ProductForm.tsx 230-245)
RECURSIVE HiddenInputs(_, _)
HiddenInputs(list, n) ==
  IF n = 0 THEN <<>>
  ELSE HiddenInputs(list, n - 1)
       \o << Field("images", n - 1, "order_index", toString(list[n].order_index)) >>
       \o (IF list[n].type = "existing"
           THEN << Field("images", n - 1, "id", <<list[n].id>>) >>
           ELSE <<>>)

\* the file parts of the file input
FileParts(files) ==
  [k \in 1..Len(files) |-> Field("images", Nil, "", files[k])]

\* the form as submitted: hidden inputs, text fields, file parts and the
\* optional deletedImages field of the payload
FormFields(name, price, deleted) ==
  (IF defaultId # Nil THEN << Field("productId", Nil, "", <<defaultId>>) >> ELSE <<>>)
  \o HiddenInputs(orderedImages, Len(orderedImages))
  \o << Field("name", Nil, "", name), Field("price", Nil, "", price) >>
  \o FileParts(inputFiles)
  \o (IF deleted # <<>> THEN << Field("deletedImages", Nil, "", deleted) >> ELSE <<>>)

Matches(f, base, index, prop) ==
  f.base = base /\ f.index = index /\ f.prop = prop

\* formData.getAll(name)
RECURSIVE getAll(_, _, _, _)
getAll(fd, base, index, prop) ==
  IF fd = <<>> THEN <<>>
  ELSE (IF Matches(fd[1], base, index, prop) THEN <<fd[1].value>> ELSE <<>>)
       \o getAll(SubSeq(fd, 2, Len(fd)), base, index, prop)

\* formData.get(name) is null
Missing(fd, base, index, prop) == getAll(fd, base, index, prop) = <<>>

\* formData.get(name) when present
get(fd, base, index, prop) == getAll(fd, base, index, prop)[1]

\* !formData.get(name): the field is absent or the empty string
Falsy(fd, base, index, prop) ==
  Missing(fd, base, index, prop) \/ get(fd, base, index, prop) = <<>>

\* JSON.stringify / JSON.parse of a list of ids
JsonStringify(ids) == <<"[">> \o ids \o <<"]">>
JsonParse(s) == SubSeq(s, 2, Len(s) - 1)

(* ------------------------------ the store ------------------------------ *)
\* storage path products/${productId}/${uuid}.${extension}
StoragePath(productId, uuid, extension) == <<productId, uuid, extension>>

\* file.name.split(".").pop()
FileExtension(name) == name[Len(name)]

\* the public URL of a storage path ends with the path
PublicUrl(path) == path

\* imageData.url.split('.') last element
UrlExtension(url) == url[Len(url)]

\* a persisted image row and its blob
PersistedRow(id, productId, orderIndex) ==
  [id |-> id, uuid |-> id, url |-> PublicUrl(StoragePath(productId, id, "png")),
   product_id |-> productId, order_index |-> orderIndex]

\* ids given by the store and by randomUUID to the k-th file of the submission
NewProductId == 3
NewImageId(k) == 30 + k
randomUUID(k) == 100 + k

\* a call issued to the store or to storage
Call(op, id, orderIndex, productId) ==
  [op |-> op, id |-> id, order_index |-> orderIndex, product_id |-> productId]

NoResponse ==
  [type |-> "none", status |-> 0, success |-> FALSE, productId |-> Nil,
   errors |-> {}, location |-> ""]

\* json<ActionData>(data, {status})
Json(status, success, errors) ==
  [type |-> "json", status |-> status, success |-> success, productId |-> Nil,
   errors |-> errors, location |-> ""]

\* redirect(url)
Redirect(url) ==
  [type |-> "redirect", status |-> 302, success |-> FALSE, productId |-> Nil,
   errors |-> {}, location |-> url]

\* editFetcher.data: nothing loaded, a product with its id, or an error
NoData == [product |-> Nil, error |-> FALSE]
ProductData(id) == [product |-> id, error |-> FALSE]
LoadError == [product |-> Nil, error |-> TRUE]

\* state of the page: the two drawer states, the ref, the two fetchers
\* (fetcher: state, data, the answer awaited and the kind of the submission
\* awaited and of the last one answered), the data of the loader, whether
\* the effects of the last render are still to run, and counts of what
\* happened
InitialPage ==
  [showCreateProductDrawer |-> FALSE,
   editingProductId |-> Nil,
   isProcessingSuccessRef |-> FALSE,
   fetcher |-> [state |-> "idle", data |-> "none", awaited |-> "none",
                kind |-> "none", settled |-> "none"],
   editFetcher |-> [state |-> "idle", data |-> NoData, target |-> Nil],
   loaded |-> [params |-> <<>>, totalProducts |-> 0, throws |-> FALSE,
               response |-> [type |-> "none", error |-> "", currentPage |-> 0,
                             location |-> <<>>]],
   effects |-> "done",
   submissions |-> 0,
   successes |-> 0,
   processed |-> 0]

InitialProducts ==
  { [id |-> P1, name |-> <<"A">>, price |-> 1],
    [id |-> P2, name |-> <<"B">>, price |-> 2] }

ServerInit ==
  /\ pc = "idle"
  /\ formData = <<>>
  /\ products = InitialProducts
  /\ blobs = { r.url : r \in images }
  /\ productResult = Nil
  /\ chains = <<>>
  /\ errorsImages = FALSE
  /\ imagesToDelete = {}
  /\ removed = {}
  /\ imageUpdates = <<>>
  /\ updated = {}
  /\ response = NoResponse
  /\ issued = {}
  /\ failures = 0
  /\ failed = {}
  /\ before = [images |-> images, blobs |-> { r.url : r \in images }]

Init ==
  /\ \E list \in PersistedLists :
       /\ defaultImages = list
       /\ orderedImages = InitialOrderedImages(list)
       /\ defaultId \in (IF list = <<>> THEN {Nil, P1} ELSE {P1})
       /\ images = { PersistedRow(list[k].id, P1, list[k].order_index) : k \in 1..Len(list) }
                   \cup { PersistedRow(X1, P2, 1) }
  /\ inputFiles = <<>>
  /\ nextNew = 0
  /\ lastOp = "init"
  /\ stagedIndex = <<>>
  /\ request = <<>>
  /\ revoked = {}
  /\ revokedAgain = {}
  /\ ServerInit
  /\ page = InitialPage

(* ------------------- the action of productos.nuevo.tsx ----------------- *)
\* outcomes of a call to a collaborator: TRUE when it succeeds
Outcomes == IF failures < MaxFailures THEN BOOLEAN ELSE {TRUE}

\* the call op about file, row or pair id returns an error
Fails(op, id) ==
  /\ failures' = failures + 1
  /\ failed' = failed \cup { [op |-> op, id |-> id] }

imageFiles(fd) == getAll(fd, "images", Nil, "")

\* formData.getAll("images[].order_index").map(index => Number(index))
imageOrderIndices(fd) ==
  LET all == getAll(fd, "images", Nil, "order_index")
  IN [k \in 1..Len(all) |-> Number(all[k]).value]

\* the upload handler rejects a part larger than maxPartSize
ExceededUploadSize(files) == \E k \in 1..Len(files) : files[k].size > MAX_FILE_SIZE

isNoOp(fd) ==
  /\ Falsy(fd, "productId", Nil, "")
  /\ Falsy(fd, "name", Nil, "")
  /\ ~\E k \in 1..Len(imageFiles(fd)) : imageFiles(fd)[k].size > 0

RECURSIVE TotalSize(_)
TotalSize(files) ==
  IF files = <<>> THEN 0
  ELSE files[Len(files)].size + TotalSize(SubSeq(files, 1, Len(files) - 1))

NameInvalid(fd) ==
  Missing(fd, "name", Nil, "") \/ trim(get(fd, "name", Nil, "")) = <<>>

PriceInvalid(fd) ==
  \/ Falsy(fd, "price", Nil, "")
  \/ Number(get(fd, "price", Nil, "")).nan
  \/ Number(get(fd, "price", Nil, "")).value <= 0

TotalInvalid(fd) == TotalSize(imageFiles(fd)) > MAX_TOTAL_SIZE

\* the errors object filled by the validation
ValidationErrors(fd) ==
  (IF NameInvalid(fd) THEN {"name"} ELSE {})
  \cup (IF PriceInvalid(fd) THEN {"price"} ELSE {})
  \cup (IF TotalInvalid(fd) THEN {"images"} ELSE {})

\* formData.get("productId")?.toString(), Nil when absent or empty
ProductIdOf(fd) ==
  IF Falsy(fd, "productId", Nil, "") THEN Nil ELSE get(fd, "productId", Nil, "")[1]

\* lists of image ids a payload may carry in deletedImages
DeletedChoices == { <<E1>>, <<E1, X1>> }

\* what follows the upload step: deletion, position updates or the response
AfterUploads(fd) ==
  IF ProductIdOf(fd) = Nil THEN "respond"
  ELSE IF Falsy(fd, "deletedImages", Nil, "") THEN "update"
  ELSE "delete"

\* order_index of the staged entry wrapping the k-th file of the file input,
\* 0 when that entry was removed from the sequence
StagedOrderIndex(k) ==
  LET ref == FileRef(nextNew - Len(inputFiles) + k)
      at  == { i \in 1..Len(orderedImages) : orderedImages[i].file = ref }
  IN IF at = {} THEN 0 ELSE orderedImages[CHOOSE i \in at : TRUE].order_index

\* lines 22-111: parsing, the no-op test and the validation of the body fd
Receive(fd, parsed) ==
  /\ request' = fd
  /\ before' = [images |-> images, blobs |-> blobs]
  /\ IF ExceededUploadSize(imageFiles(fd))
       THEN /\ response' = Json(413, FALSE, {"images"})
            /\ pc' = "done"
            /\ UNCHANGED formData
     ELSE IF ~parsed
       THEN /\ response' = Json(400, FALSE, {"form"})
            /\ pc' = "done"
            /\ UNCHANGED formData
     ELSE IF isNoOp(fd)
       THEN /\ response' = Json(200, TRUE, {})
            /\ pc' = "done"
            /\ formData' = fd
     ELSE IF ValidationErrors(fd) # {}
       THEN /\ response' = Json(400, FALSE, ValidationErrors(fd))
            /\ pc' = "done"
            /\ formData' = fd
     ELSE /\ pc' = "upsert"
          /\ formData' = fd
          /\ UNCHANGED response
  /\ UNCHANGED <<page, storeVars, productResult, chains, errorsImages, imagesToDelete, removed,
                 imageUpdates, updated, issued, failures, failed>>

\* the page is unloaded by the native submission of the form
Unload ==
  /\ stagedIndex' = [k \in 1..Len(inputFiles) |-> StagedOrderIndex(k)]
  /\ orderedImages' = <<>>
  /\ inputFiles' = <<>>
  /\ defaultId' = Nil
  /\ defaultImages' = <<>>
  /\ nextNew' = 0
  /\ revoked' = {}
  /\ revokedAgain' = {}

\* the form is submitted and the action receives it (ProductForm.tsx 165-191,
\* productos.nuevo.tsx 22-111); the body built by the browser is well formed
Submit ==
  /\ Mounted
  /\ \E typed \in Typed :
       Receive(FormFields(typed[1], typed[2], <<>>), TRUE)
  /\ Unload
  /\ lastOp' = "submit"

\* all entries of list whose id is not in ids
RECURSIVE FilterOutAll(_, _)
FilterOutAll(list, ids) ==
  IF ids = <<>> THEN list
  ELSE FilterOutAll(FilterOut(list, ids[1]), SubSeq(ids, 2, Len(ids)))

\* the file parts a posted payload may carry
PostedFiles ==
  { <<>>, << [name |-> <<"a", "png">>, type |-> <<"image", "png">>, size |-> 1] >> }

\* payloads that mark images for deletion are not produced by ProductForm:
\* another caller posts the persisted images it keeps, renumbered, the
\* list of the ids it deletes and possibly a new file (payload shape of the
\* action, lines 78-85 and 257-264)
DirectPost ==
  /\ pc = "idle"
  /\ lastOp = "init"
  /\ defaultId # Nil
  /\ \E deleted \in DeletedChoices, files \in PostedFiles, parsed \in Outcomes :
       Receive((<< Field("productId", Nil, "", <<defaultId>>) >>
                \o HiddenInputs(Renumber(FilterOutAll(orderedImages, deleted)),
                                Len(FilterOutAll(orderedImages, deleted)))
                \o << Field("name", Nil, "", <<"L">>), Field("price", Nil, "", <<"5">>) >>
                \o FileParts(files)
                \o << Field("deletedImages", Nil, "", JsonStringify(deleted)) >>),
               parsed)
  /\ Unload
  /\ lastOp' = "post"

\* the product row written by the insert or the update
ProductRow(id, fd) ==
  [id |-> id, name |-> trim(get(fd, "name", Nil, "")),
   price |-> Number(get(fd, "price", Nil, "")).value]

\* one record per element of imagePromises
NewChains(fd) ==
  [k \in 1..Len(imageFiles(fd)) |-> [pc |-> "start", result |-> <<>>]]

\* a handler that logs the upsert error and goes on with the images
UpsertErrorIgnored(fd) ==
  IF Len(imageFiles(fd)) > 0 THEN "upload" ELSE AfterUploads(fd)

\* where the action stands after a failed upsert: it has returned
\* (lines 129-136 and 153-160)
UpsertErrorNext(fd) == "done"

\* insert of a new product or update of the existing one (lines 113-164)
UpsertProduct ==
  /\ pc = "upsert"
  /\ \E ok \in Outcomes :
       LET productId == ProductIdOf(formData)
           id == IF productId = Nil THEN NewProductId ELSE productId
           found == productId = Nil \/ \E p \in products : p.id = productId
       IN /\ issued' = issued \cup
               { Call(IF productId = Nil THEN "products.insert" ELSE "products.update",
                      id, Nil, id) }
          /\ IF ok /\ found
             THEN /\ products' = { p \in products : p.id # id }
                                 \cup { ProductRow(id, formData) }
                  /\ productResult' = id
                  /\ chains' = NewChains(formData)
                  /\ pc' = IF Len(imageFiles(formData)) > 0 THEN "upload"
                           ELSE AfterUploads(formData)
                  /\ UNCHANGED <<response, failures, failed>>
             ELSE /\ response' = Json(500, FALSE, {"form"})
                  /\ pc' = UpsertErrorNext(formData)
                  /\ Fails("products.upsert", Nil)
                  /\ UNCHANGED <<products, productResult, chains>>
  /\ UNCHANGED <<page, clientVars, before, images, blobs, formData, errorsImages, imagesToDelete,
                 removed, imageUpdates, updated>>

\* an index taken from the array position without the + 1
InsertedOrderIndexZeroBased(fd, index) ==
  IF index + 1 <= Len(imageOrderIndices(fd)) /\ imageOrderIndices(fd)[index + 1] # 0
  THEN imageOrderIndices(fd)[index + 1]
  ELSE index

\* an index taken from the number of rows inserted so far
InsertedOrderIndexByArrival(fd, index) ==
  Cardinality({ j \in 1..Len(chains) : chains[j].result # <<>> }) + 1

\* imageOrderIndices[index] || index + 1, index 0-based
InsertedOrderIndex(fd, index) ==
  IF index + 1 <= Len(imageOrderIndices(fd)) /\ imageOrderIndices(fd)[index + 1] # 0
  THEN imageOrderIndices(fd)[index + 1]
  ELSE index + 1

\* an upload step in which the failure of one file gives up the files that
\* have not finished yet
UploadFileAbortAll(k) ==
  /\ pc = "upload"
  /\ chains[k].pc = "start"
  /\ LET file == imageFiles(formData)[k]
         path == StoragePath(productResult, randomUUID(k), FileExtension(file.name))
         abort == [j \in 1..Len(chains) |->
                     IF chains[j].pc = "done" THEN chains[j]
                     ELSE [pc |-> "done", result |-> <<>>]]
     IN IF file.type[1] # "image" \/ file.size > MAX_FILE_SIZE
        THEN /\ chains' = abort
             /\ UNCHANGED <<blobs, issued, failures, failed>>
        ELSE \E ok \in Outcomes :
               /\ issued' = issued \cup { Call("storage.upload", k - 1, Nil, productResult) }
               /\ IF ok
                  THEN /\ blobs' = blobs \cup {path}
                       /\ chains' = [chains EXCEPT ![k].pc = "uploaded"]
                       /\ UNCHANGED <<failures, failed>>
                  ELSE /\ chains' = abort
                       /\ Fails("storage.upload", k)
                       /\ UNCHANGED blobs
  /\ UNCHANGED <<page, clientVars, before, products, images, pc, formData, productResult, errorsImages,
                 imagesToDelete, removed, imageUpdates, updated, response>>

\* first half of one file's chain: checks and blob upload (lines 169-203)
UploadFile(k) ==
  /\ pc = "upload"
  /\ chains[k].pc = "start"
  /\ LET file == imageFiles(formData)[k]
         path == StoragePath(productResult, randomUUID(k), FileExtension(file.name))
     IN IF file.type[1] # "image" \/ file.size > MAX_FILE_SIZE
        THEN /\ chains' = [chains EXCEPT ![k] = [pc |-> "done", result |-> <<>>]]
             /\ UNCHANGED <<blobs, issued, failures, failed>>
        ELSE \E ok \in Outcomes :
               /\ issued' = issued \cup { Call("storage.upload", k - 1, Nil, productResult) }
               /\ IF ok
                  THEN /\ blobs' = blobs \cup {path}
                       /\ chains' = [chains EXCEPT ![k].pc = "uploaded"]
                       /\ UNCHANGED <<failures, failed>>
                  ELSE /\ chains' = [chains EXCEPT ![k] = [pc |-> "done", result |-> <<>>]]
                       /\ Fails("storage.upload", k)
                       /\ UNCHANGED blobs
  /\ UNCHANGED <<page, clientVars, before, products, images, pc, formData, productResult, errorsImages,
                 imagesToDelete, removed, imageUpdates, updated, response>>

\* second half of one file's chain: public URL and image row (lines 207-235)
InsertImage(k) ==
  /\ pc = "upload"
  /\ chains[k].pc = "uploaded"
  /\ LET file == imageFiles(formData)[k]
         path == StoragePath(productResult, randomUUID(k), FileExtension(file.name))
         row  == [id |-> NewImageId(k), uuid |-> randomUUID(k), url |-> PublicUrl(path),
                  product_id |-> productResult,
                  order_index |-> InsertedOrderIndex(formData, k - 1)]
     IN \E publicUrl \in Outcomes, ok \in Outcomes :
          IF ~publicUrl
          THEN /\ chains' = [chains EXCEPT ![k] = [pc |-> "done", result |-> <<>>]]
               /\ Fails("storage.getPublicUrl", k)
               /\ UNCHANGED <<images, issued>>
          ELSE /\ issued' = issued \cup
                    { Call("images.insert", k - 1, row.order_index, productResult) }
               /\ IF ok
                  THEN /\ images' = images \cup {row}
                       /\ chains' = [chains EXCEPT ![k] = [pc |-> "done", result |-> row.url]]
                       /\ UNCHANGED <<failures, failed>>
                  ELSE /\ chains' = [chains EXCEPT ![k] = [pc |-> "done", result |-> <<>>]]
                       /\ Fails("images.insert", k)
                       /\ UNCHANGED images
  /\ UNCHANGED <<page, clientVars, before, products, blobs, pc, formData, productResult, errorsImages,
                 imagesToDelete, removed, imageUpdates, updated, response>>

\* a join that goes on as soon as one chain has returned
JoinUploadsEarly ==
  /\ pc = "upload"
  /\ \E k \in 1..Len(chains) : chains[k].pc = "done"
  /\ errorsImages' = (\A k \in 1..Len(chains) : chains[k].result = <<>>)
  /\ pc' = AfterUploads(formData)
  /\ UNCHANGED <<page, clientVars, before, storeVars, formData, productResult, chains, imagesToDelete,
                 removed, imageUpdates, updated, response, issued, failures, failed>>

\* Promise.all(imagePromises) and the summary (lines 242-255)
JoinUploads ==
  /\ pc = "upload"
  /\ \A k \in 1..Len(chains) : chains[k].pc = "done"
  /\ errorsImages' = (\A k \in 1..Len(chains) : chains[k].result = <<>>)
  /\ pc' = AfterUploads(formData)
  /\ UNCHANGED <<page, clientVars, before, storeVars, formData, productResult, chains, imagesToDelete,
                 removed, imageUpdates, updated, response, issued, failures, failed>>

\* JSON.parse(deletedImagesStr)
deletedImages(fd) == JsonParse(get(fd, "deletedImages", Nil, ""))

InList(x, list) == \E k \in 1..Len(list) : list[k] = x

\* select id, uuid of the rows listed in deletedImages (lines 257-274)
LookupDeleted ==
  /\ pc = "delete"
  /\ issued' = issued \cup { Call("images.select", Nil, Nil, Nil) }
  /\ \E ok \in Outcomes :
       IF ok
       THEN /\ imagesToDelete' = { r \in images : InList(r.id, deletedImages(formData)) }
            /\ pc' = "remove"
            /\ UNCHANGED <<failures, failed>>
       ELSE /\ pc' = "update"
            /\ Fails("images.select", Nil)
            /\ UNCHANGED imagesToDelete
  /\ UNCHANGED <<page, clientVars, before, storeVars, formData, productResult, chains, errorsImages,
                 removed, imageUpdates, updated, response>>

\* one element of deleteStoragePromises: read the url, remove the blob
\* (lines 276-297)
RemoveBlob(image) ==
  /\ pc = "remove"
  /\ image \in imagesToDelete \ removed
  /\ removed' = removed \cup {image}
  /\ \E selected \in Outcomes, ok \in Outcomes :
       LET storagePath == StoragePath(ProductIdOf(formData), image.uuid,
                                      UrlExtension(image.url))
       IN IF ~selected
          THEN /\ Fails("images.selectUrl", image.id)
               /\ UNCHANGED <<blobs, issued>>
          ELSE /\ issued' = issued \cup
                    { Call("storage.remove", image.id, Nil, ProductIdOf(formData)) }
               /\ IF ok
                  THEN blobs' = blobs \ {storagePath} /\ UNCHANGED <<failures, failed>>
                  ELSE Fails("storage.remove", image.id) /\ UNCHANGED blobs
  /\ UNCHANGED <<page, clientVars, before, products, images, pc, formData, productResult, chains,
                 errorsImages, imagesToDelete, imageUpdates, updated, response>>

\* a row deletion that is given up when an earlier call of the submission
\* failed
DeleteRowsUnlessFailed ==
  /\ pc = "remove"
  /\ removed = imagesToDelete
  /\ IF failures > 0
     THEN UNCHANGED <<images, issued, failures, failed>>
     ELSE /\ issued' = issued \cup { Call("images.delete", Nil, Nil, Nil) }
          /\ images' = { r \in images : ~InList(r.id, deletedImages(formData)) }
          /\ UNCHANGED <<failures, failed>>
  /\ pc' = "update"
  /\ UNCHANGED <<page, clientVars, before, products, blobs, formData, productResult, chains,
                 errorsImages, imagesToDelete, removed, imageUpdates, updated, response>>

\* Promise.all(deleteStoragePromises), then delete the rows (lines 299-311)
DeleteRows ==
  /\ pc = "remove"
  /\ removed = imagesToDelete
  /\ issued' = issued \cup { Call("images.delete", Nil, Nil, Nil) }
  /\ \E ok \in Outcomes :
       IF ok
       THEN /\ images' = { r \in images : ~InList(r.id, deletedImages(formData)) }
            /\ UNCHANGED <<failures, failed>>
       ELSE /\ Fails("images.delete", Nil)
            /\ UNCHANGED images
  /\ pc' = "update"
  /\ UNCHANGED <<page, clientVars, before, products, blobs, formData, productResult, chains,
                 errorsImages, imagesToDelete, removed, imageUpdates, updated, response>>

\* the while loop collecting the pairs of the form (lines 318-334), from
\* index on
RECURSIVE CollectUpdates(_, _)
CollectUpdates(fd, index) ==
  IF Falsy(fd, "images", index, "id") \/ Falsy(fd, "images", index, "order_index")
  THEN <<>>
  ELSE << [id |-> get(fd, "images", index, "id")[1],
           order_index |-> parseInt(get(fd, "images", index, "order_index"))] >>
       \o CollectUpdates(fd, index + 1)

\* imageUpdates is built and every update is issued (lines 318-346)
IssueUpdates ==
  /\ pc = "update"
  /\ imageUpdates' = CollectUpdates(formData, 0)
  /\ issued' = issued \cup
       { Call("images.update", u.id, u.order_index, ProductIdOf(formData)) :
           u \in { CollectUpdates(formData, 0)[k] :
                     k \in 1..Len(CollectUpdates(formData, 0)) } }
  /\ pc' = "updating"
  /\ UNCHANGED <<page, clientVars, before, storeVars, formData, productResult, chains, errorsImages,
                 imagesToDelete, removed, updated, response, failures, failed>>

\* one update of updatePromises settles (lines 339-346)
UpdateOrderIndex(k) ==
  /\ pc = "updating"
  /\ k \in (1..Len(imageUpdates)) \ updated
  /\ updated' = updated \cup {k}
  /\ \E ok \in Outcomes :
       IF ok
       THEN /\ images' = { IF r.id = imageUpdates[k].id
                              /\ r.product_id = ProductIdOf(formData)
                           THEN [r EXCEPT !.order_index = imageUpdates[k].order_index]
                           ELSE r : r \in images }
            /\ UNCHANGED <<failures, failed>>
       ELSE /\ Fails("images.update", k)
            /\ UNCHANGED images
  /\ UNCHANGED <<page, clientVars, before, products, blobs, pc, formData, productResult, chains,
                 errorsImages, imagesToDelete, removed, imageUpdates, response, issued>>

\* a final return that turns a failed sub-operation into a form-level error
RespondErrorOnFailure ==
  /\ \/ pc = "respond"
     \/ pc = "updating" /\ updated = 1..Len(imageUpdates)
  /\ response' = IF failures > 0 THEN Json(500, FALSE, {"form"}) ELSE Redirect("/productos")
  /\ pc' = "done"
  /\ UNCHANGED <<page, clientVars, before, storeVars, formData, productResult, chains, errorsImages,
                 imagesToDelete, removed, imageUpdates, updated, issued, failures, failed>>

\* Promise.all(updatePromises) (update path) and the final return
\* (lines 348-359)
Respond ==
  /\ \/ pc = "respond"
     \/ pc = "updating" /\ updated = 1..Len(imageUpdates)
  /\ response' = Redirect("/productos")
  /\ pc' = "done"
  /\ UNCHANGED <<page, clientVars, before, storeVars, formData, productResult, chains, errorsImages,
                 imagesToDelete, removed, imageUpdates, updated, issued, failures, failed>>

\* the form is closed without being submitted: the component unmounts and
\* the cleanup of its effect runs (ProductForm.tsx 193-202)
unmount ==
  /\ Mounted
  /\ UNCHANGED <<page, serverVars>>
  /\ Cleanup
  /\ lastOp' = "unmount"
  /\ UNCHANGED <<orderedImages, inputFiles, defaultId, defaultImages, nextNew, stagedIndex, request>>

ClientNext == handleFileSelect \/ onDragEnd \/ handleRemoveImage \/ unmount

ActionNext ==
  \/ Submit
  \/ DirectPost
  \/ UpsertProduct
  \/ \E k \in 1..MaxImages : k <= Len(chains) /\ UploadFile(k)
  \/ \E k \in 1..MaxImages : k <= Len(chains) /\ InsertImage(k)
  \/ JoinUploads
  \/ LookupDeleted
  \/ \E image \in imagesToDelete : RemoveBlob(image)
  \/ DeleteRows
  \/ IssueUpdates
  \/ \E k \in 1..MaxImages : UpdateOrderIndex(k)
  \/ Respond

Next == ClientNext \/ ActionNext

Spec == Init /\ [][Next]_vars

(* ------------------- the products page (ProductosPage) ----------------- *)
\* a drawer that shows the edit form with whatever product is loaded
RenderedFormAnyData(p) ==
  IF p.showCreateProductDrawer THEN [form |-> "create", id |-> Nil]
  ELSE IF p.editingProductId # Nil /\ p.editFetcher.state = "loading"
    THEN [form |-> "none", id |-> Nil]
  ELSE IF /\ p.editingProductId # Nil
          /\ p.editFetcher.state = "idle"
          /\ p.editFetcher.data.product # Nil
    THEN [form |-> "edit", id |-> p.editFetcher.data.product]
  ELSE [form |-> "none", id |-> Nil]

\* what the drawer renders (lines 522-549): the create form, the edit form
\* of a product, or no form
RenderedForm(p) ==
  IF p.showCreateProductDrawer THEN [form |-> "create", id |-> Nil]
  ELSE IF p.editingProductId # Nil /\ p.editFetcher.state = "loading"
    THEN [form |-> "none", id |-> Nil]
  ELSE IF /\ p.editingProductId # Nil
          /\ p.editFetcher.state = "idle"
          /\ p.editFetcher.data.product = p.editingProductId
    THEN [form |-> "edit", id |-> p.editFetcher.data.product]
  ELSE [form |-> "none", id |-> Nil]

\* handleCloseDrawer (lines 88-96)
CloseDrawer(p) ==
  [p EXCEPT !.editingProductId = Nil, !.showCreateProductDrawer = FALSE]

\* what fetcher.data holds once the action has answered the body fd: the
\* success message, the errors, or nothing after a redirect
\* (productos.nuevo.tsx 59-111 and 129-164, 358-359)
FetcherAnswer(fd, ok) ==
  IF isNoOp(fd) THEN "success"
  ELSE IF ValidationErrors(fd) # {} THEN "errors"
  ELSE IF ok THEN "none"
  ELSE "errors"

\* new FormData(): the body of the empty submission (lines 140-141)
dummyFormData == <<>>

\* the effect of ProductForm on the fetcher (ProductForm.tsx 204-215): a
\* rendered form closes the drawer when the fetcher is idle with a success
formEffect(p) ==
  IF /\ RenderedForm(p).form # "none"
     /\ p.fetcher.state = "idle"
     /\ p.fetcher.data = "success"
  THEN CloseDrawer(p)
  ELSE p

\* the effect loading the product to edit (lines 109-121)
editEffect(p) ==
  IF /\ p.editingProductId # Nil
     /\ p.editFetcher.state = "idle"
     /\ p.editFetcher.data.product # p.editingProductId
  THEN [p EXCEPT !.editFetcher.state = "loading",
                 !.editFetcher.target = p.editingProductId]
  ELSE p

\* the effect handling the success of the operation (lines 124-148)
successEffect(p) ==
  IF p.fetcher.state = "idle" /\ p.fetcher.data = "success" /\ ~p.isProcessingSuccessRef
  THEN [CloseDrawer(p) EXCEPT
          !.isProcessingSuccessRef = TRUE,
          !.processed = p.processed + 1,
          !.fetcher.state = "submitting",
          !.fetcher.kind = "noop",
          !.fetcher.awaited = FetcherAnswer(dummyFormData, TRUE)]
  ELSE IF p.fetcher.state = "idle" /\ p.fetcher.data # "success" /\ p.isProcessingSuccessRef
  THEN [p EXCEPT !.isProcessingSuccessRef = FALSE]
  ELSE p

\* the effects of one render: those of the form, then those of the page
Effects(p) == successEffect(editEffect(formEffect(p)))

\* a change of state is rendered, and the effects of that render are to run
Rendered(p) == [p EXCEPT !.effects = "pending"]

\* the effects of the last render run; what they change is rendered in turn
flushEffects ==
  /\ page.effects = "pending"
  /\ LET shown == [page EXCEPT !.effects = "done"]
     IN page' = IF Effects(shown) = shown THEN shown ELSE Rendered(Effects(shown))
  /\ UNCHANGED <<clientVars, serverVars>>

\* the body a form of the drawer submits through the fetcher
PageForm(productId, typed) ==
  (IF productId # Nil THEN << Field("productId", Nil, "", <<productId>>) >> ELSE <<>>)
  \o << Field("name", Nil, "", typed[1]), Field("price", Nil, "", typed[2]) >>

\* button "Agregar Producto" (lines 199-203)
openCreate ==
  /\ page.effects = "done"
  /\ page' = Rendered([CloseDrawer(page) EXCEPT !.showCreateProductDrawer = TRUE])
  /\ UNCHANGED <<clientVars, serverVars>>

\* handleStartEdit (lines 99-107)
handleStartEdit ==
  /\ page.effects = "done"
  /\ \E productId \in {P1, P2} :
       page' = Rendered([page EXCEPT !.showCreateProductDrawer = FALSE,
                                       !.editingProductId = productId])
  /\ UNCHANGED <<clientVars, serverVars>>

\* the drawer is closed by its close control (lines 517-521)
handleCloseDrawer ==
  /\ page.effects = "done"
  /\ page.showCreateProductDrawer \/ page.editingProductId # Nil
  /\ page' = Rendered(CloseDrawer(page))
  /\ UNCHANGED <<clientVars, serverVars>>

\* the form shown in the drawer is submitted through the fetcher
\* (ProductForm.tsx 218-224, button enabled while not submitting: 413-415)
fetcherSubmit ==
  /\ page.effects = "done"
  /\ RenderedForm(page).form # "none"
  /\ page.fetcher.state = "idle"
  /\ page.submissions < MaxSubmissions
  /\ \E typed \in Typed, ok \in BOOLEAN :
       page' = Rendered([page EXCEPT
                 !.fetcher.state = "submitting",
                 !.fetcher.kind = "form",
                 !.fetcher.awaited =
                    FetcherAnswer(PageForm(RenderedForm(page).id, typed), ok),
                 !.submissions = page.submissions + 1])
  /\ UNCHANGED <<clientVars, serverVars>>

\* the action has answered the submission of the fetcher
fetcherSettle ==
  /\ page.effects = "done"
  /\ page.fetcher.state = "submitting"
  /\ page' = Rendered([page EXCEPT
               !.fetcher.state = "idle",
               !.fetcher.data = page.fetcher.awaited,
               !.fetcher.settled = page.fetcher.kind,
               !.fetcher.kind = "none",
               !.fetcher.awaited = "none",
               !.successes = IF page.fetcher.kind = "form"
                                /\ page.fetcher.awaited = "success"
                             THEN page.successes + 1 ELSE page.successes])
  /\ UNCHANGED <<clientVars, serverVars>>

\* the load of editFetcher has completed with the product or with an error
editFetcherSettle ==
  /\ page.effects = "done"
  /\ page.editFetcher.state = "loading"
  /\ \E data \in {ProductData(page.editFetcher.target), LoadError} :
       page' = Rendered([page EXCEPT !.editFetcher.state = "idle",
                                       !.editFetcher.data = data,
                                       !.editFetcher.target = Nil])
  /\ UNCHANGED <<clientVars, serverVars>>

(* ------------------- the loader of the products page ------------------- *)
\* URLSearchParams: a sequence of <<name, value>> pairs
ParamsHas(params, name) == \E k \in 1..Len(params) : params[k][1] = name

\* searchParams.get(name), Nil (null) when absent
ParamsGet(params, name) ==
  IF ParamsHas(params, name)
  THEN params[CHOOSE k \in 1..Len(params) :
                /\ params[k][1] = name
                /\ \A j \in 1..(k - 1) : params[j][1] # name][2]
  ELSE Nil

RECURSIVE ParamsDelete(_, _)
ParamsDelete(params, name) ==
  IF params = <<>> THEN <<>>
  ELSE (IF params[1][1] = name THEN <<>> ELSE <<params[1]>>)
       \o ParamsDelete(SubSeq(params, 2, Len(params)), name)

\* searchParams.set(name, value): the first pair of that name takes the
\* value and the others are removed; appended when there is none
ParamsSet(params, name, value) ==
  IF ParamsHas(params, name)
  THEN LET first == CHOOSE k \in 1..Len(params) :
                      /\ params[k][1] = name
                      /\ \A j \in 1..(k - 1) : params[j][1] # name
       IN SubSeq(params, 1, first - 1) \o << <<name, value>> >>
          \o ParamsDelete(SubSeq(params, first + 1, Len(params)), name)
  ELSE Append(params, <<name, value>>)

\* Number(searchParams.get(name)) || fallback
NumberOr(params, name, fallback) ==
  LET s == ParamsGet(params, name)
  IN IF ~ParamsHas(params, name) \/ Number(s).nan \/ Number(s).value = 0 THEN fallback
     ELSE Number(s).value

\* Math.ceil(totalProducts / limit)
CeilDiv(a, b) == (a + b - 1) \div b

\* getFilteredProducts (part_004 34-104) for a store holding totalProducts
\* matching products: the result it returns, or the error it throws when
\* the query throws
getFilteredProducts(params, pageNumber, limit, totalProducts, throws) ==
  IF throws THEN [thrown |-> "fetch failed"]
  ELSE IF pageNumber > CeilDiv(totalProducts, limit) /\ totalProducts > 0
  THEN [thrown |-> "", error |-> "Página inválida", products |-> Nil,
        totalProducts |-> totalProducts, currentPage |-> pageNumber, limit |-> limit]
  ELSE [thrown |-> "", error |-> "", products |-> totalProducts,
        totalProducts |-> totalProducts, currentPage |-> pageNumber, limit |-> limit]

\* the response of the loader (part_000 27-64)
LoaderResponse(params, totalProducts, throws) ==
  LET pageNumber == NumberOr(params, "page", 1)
      limit == NumberOr(params, "limit", 10)
      result == getFilteredProducts(params, pageNumber, limit, totalProducts, throws)
  IN IF result.thrown = ""
     THEN [type |-> "json", error |-> result.error, currentPage |-> result.currentPage,
           location |-> <<>>]
     ELSE IF result.thrown = "Página inválida"
     THEN [type |-> "redirect", error |-> "", currentPage |-> 0,
           location |-> ParamsSet(params, "page", <<"1">>)]
     ELSE [type |-> "json", error |-> result.thrown, currentPage |-> 1, location |-> <<>>]

\* the search parameters of the requests made to the page
RequestParams ==
  { pageParam \o limit \o q :
      pageParam \in { <<>>, << <<"page", <<"1">>>> >>, << <<"page", <<"2">>>> >>,
                 << <<"page", <<"3">>>> >> },
      limit \in { <<>>, << <<"limit", <<"1">>>> >> },
      q \in { <<>>, << <<"q", <<"x">>>> >> } }

\* the page is requested and the loader answers
loader ==
  /\ \E params \in RequestParams, totalProducts \in 0..MaxProducts, throws \in BOOLEAN :
       page' = [page EXCEPT !.loaded =
                  [params |-> params, totalProducts |-> totalProducts, throws |-> throws,
                   response |-> LoaderResponse(params, totalProducts, throws)]]
  /\ UNCHANGED <<clientVars, serverVars>>

\* the requests of the page, each answered by the loader
SpecLoader == Init /\ [][loader]_vars

PageNext ==
  \/ flushEffects
  \/ openCreate
  \/ handleStartEdit
  \/ handleCloseDrawer
  \/ fetcherSubmit
  \/ fetcherSettle
  \/ editFetcherSettle

SpecPage == Init /\ [][PageNext]_vars

(* ------------------------------- claims -------------------------------- *)
\* the entry at display position k carries order_index k
Dense(list) == \A k \in 1..Len(list) : list[k].order_index = k

\* C1: after every add, remove or reorder operation the order_index values
\* of the client sequence are exactly 1..N in display order
C1_DenseAfterMutation ==
  lastOp \in {"add", "remove", "reorder"} => Dense(orderedImages)

\* a remove has just acted on a sequence mixing existing and staged entries
C1_Witness ==
  /\ lastOp = "remove"
  /\ Len(orderedImages) = 2
  /\ orderedImages[1].type = "new"
  /\ orderedImages[2].type = "existing"
  /\ nextNew = 2

(* --- submissions, as the claims speak of them --- *)
\* the action has returned after going through the update path
UpdatePathDone ==
  pc = "done" /\ response.type = "redirect" /\ ProductIdOf(formData) # Nil

ProductCalls == {"products.insert", "products.update"}

\* no product row was created or changed and no product call was issued
NoProductWritten ==
  products = InitialProducts /\ \A c \in issued : c.op \notin ProductCalls

\* the submitted name is empty or made of blanks only
SubmittedNameBlank(fd) ==
  \/ Missing(fd, "name", Nil, "")
  \/ \A i \in 1..Len(get(fd, "name", Nil, "")) : get(fd, "name", Nil, "")[i] = " "

\* the submitted price is missing, not a number or not above zero
SubmittedPriceBad(fd) ==
  \/ Missing(fd, "price", Nil, "")
  \/ LET price == get(fd, "price", Nil, "")
     IN \/ price = <<>>
        \/ \E i \in 1..Len(price) : ~IsDigit(price[i])
        \/ \A i \in 1..Len(price) : price[i] = "0"

\* the submitted files weigh more than the total cap
SubmittedTotalOver(fd) == TotalSize(imageFiles(fd)) > MAX_TOTAL_SIZE

\* the fields whose rule the submission violates
ViolatedRules(fd) ==
  (IF SubmittedNameBlank(fd) THEN {"name"} ELSE {})
  \cup (IF SubmittedPriceBad(fd) THEN {"price"} ELSE {})
  \cup (IF SubmittedTotalOver(fd) THEN {"images"} ELSE {})

\* C2: on the update path every submitted pair images[i].id /
\* images[i].order_index is written to the row with that id, filtered by
\* the submitted product id
C2_EveryPairWritten ==
  UpdatePathDone =>
    \A k \in 1..Len(formData) :
      (formData[k].base = "images" /\ formData[k].prop = "id") =>
        Call("images.update", formData[k].value[1],
             parseInt(get(formData, "images", formData[k].index, "order_index")),
             ProductIdOf(formData)) \in issued

\* C3: every image row inserted for a staged file carries the order_index
\* the client submitted for that staged entry
C3_InsertedRowCarriesSubmittedIndex ==
  \A k \in 1..Len(stagedIndex) : \A r \in images :
    (r.id = NewImageId(k) /\ stagedIndex[k] # 0) => r.order_index = stagedIndex[k]

\* the hidden inputs of the submission carry 1..N in display order
SubmittedDense(fd) ==
  \A k \in 1..Len(fd) :
    (fd[k].base = "images" /\ fd[k].prop = "order_index") =>
      fd[k].value = toString(fd[k].index + 1)

\* the image rows of a product
ProductImages(productId) == { r \in images : r.product_id = productId }

\* every persisted image of the product is an entry of the submission
AllPersistedSubmitted(fd) ==
  \A r \in ProductImages(ProductIdOf(fd)) :
    r.id \in {E1, E2} =>
      \E k \in 1..Len(fd) :
        fd[k].base = "images" /\ fd[k].prop = "id" /\ fd[k].value = <<r.id>>

\* the staged entries of the submission: hidden order_index inputs that come
\* without an id
StagedSubmitted(fd) ==
  { k \in 1..Len(fd) : /\ fd[k].base = "images"
                       /\ fd[k].prop = "order_index"
                       /\ Missing(fd, "images", fd[k].index, "id") }

\* C4: after an update submission built by the client order model in which
\* every call succeeds, the order_index values of the rows of the product
\* are exactly 1..N
C4_RowsDenseAfterUpdate ==
  ( /\ UpdatePathDone
    /\ lastOp = "submit"
    /\ failures = 0
    /\ SubmittedDense(formData)
    /\ AllPersistedSubmitted(formData)
    /\ \A k \in 1..Len(stagedIndex) : stagedIndex[k] # 0
    /\ Cardinality(StagedSubmitted(formData)) = Len(imageFiles(formData))
    /\ \A k \in 1..Len(chains) : chains[k].result # <<>> )
  => LET rows == ProductImages(ProductIdOf(formData))
     IN /\ { r.order_index : r \in rows } = 1..Cardinality(rows)
        /\ \A r1 \in rows, r2 \in rows : r1.order_index = r2.order_index => r1 = r2

\* C5: every parsed submission with a blank name is answered with an error
\* on field name and writes no product row, whatever its productId and files
C5_BlankNameRejected ==
  (pc = "done" /\ formData # <<>> /\ SubmittedNameBlank(formData))
  => ("name" \in response.errors /\ NoProductWritten)

\* C6: a parsed submission that violates a rule is answered with one 400
\* response carrying the errors of all violated rules, and issues no call
C6_AllErrorsNoEffect ==
  (pc = "done" /\ formData # <<>> /\ ViolatedRules(formData) # {})
  => /\ response = Json(400, FALSE, ViolatedRules(formData))
     /\ issued = {}
     /\ products = InitialProducts

\* calls of the steps that follow the upsert
LaterCalls ==
  {"storage.upload", "images.insert", "images.select", "storage.remove",
   "images.delete", "images.update"}

\* the product insert or update was issued and returned an error
UpsertFailed ==
  productResult = Nil /\ \E c \in issued : c.op \in ProductCalls

\* C7: when the product insert or update fails the action returns a
\* form-level error and issues none of the later calls
C7_UpsertFailureIsFatal ==
  UpsertFailed
  => /\ pc = "done"
     /\ response = Json(500, FALSE, {"form"})
     /\ \A c \in issued : c.op \notin LaterCalls

\* the update of a product failed in a submission carrying a file and a
\* pair to write
C7_Witness ==
  /\ UpsertFailed
  /\ \E c \in issued : c.op = "products.update"
  /\ Len(imageFiles(formData)) > 0
  /\ ~Missing(formData, "images", 0, "id")

\* C8: with several staged files of which one exceeds the per-file cap and
\* the others are valid images, the oversized file is skipped, the others
\* get their blob and row, the product is saved and success is reported
C8_OversizedFileSkipped ==
  LET files == imageFiles(request)
      over  == { k \in 1..Len(files) : files[k].size > MAX_FILE_SIZE }
  IN ( /\ pc = "done"
       /\ failures = 0
       /\ request # <<>>
       /\ ~SubmittedNameBlank(request)
       /\ ~SubmittedPriceBad(request)
       /\ ~SubmittedTotalOver(request)
       /\ Len(files) >= 2
       /\ Cardinality(over) = 1
       /\ \A k \in 1..Len(files) : files[k].type[1] = "image" )
     => /\ productResult # Nil
        /\ \E p \in products : p.id = productResult
        /\ \A k \in 1..Len(files) :
             (\E r \in images : r.id = NewImageId(k)) <=> (k \notin over)
        /\ response.errors = {}

\* C9: when files were submitted and none was uploaded successfully, the
\* response carries an images error and the product row stays saved
C9_ImagesErrorReported ==
  ( /\ pc = "done"
    /\ productResult # Nil
    /\ Len(chains) > 0
    /\ \A k \in 1..Len(chains) : chains[k].result = <<>> )
  => /\ "images" \in response.errors
     /\ \E p \in products : p.id = productResult

\* C10: a submission that passed validation and whose upsert succeeded is
\* answered with success and the id of the saved product
C10_SuccessWithProductId ==
  (pc = "done" /\ productResult # Nil)
  => (response.success /\ response.productId = productResult)

\* every submitted file is an image within the per-file cap
AllFilesValid(fd) ==
  \A k \in 1..Len(imageFiles(fd)) :
    imageFiles(fd)[k].type[1] = "image" /\ imageFiles(fd)[k].size <= MAX_FILE_SIZE

\* C11: a create submission with valid fields and k >= 1 valid image files
\* in which every call succeeds leaves exactly one new product row and
\* exactly k image rows of that product, carrying order_index 1..k
C11_CreateWithFiles ==
  ( /\ pc = "done"
    /\ lastOp = "submit"
    /\ failures = 0
    /\ formData # <<>>
    /\ ProductIdOf(formData) = Nil
    /\ ViolatedRules(formData) = {}
    /\ Len(imageFiles(formData)) >= 1
    /\ AllFilesValid(formData) )
  => LET rows == ProductImages(NewProductId)
     IN /\ products = InitialProducts \cup { ProductRow(NewProductId, formData) }
        /\ Cardinality(rows) = Len(imageFiles(formData))
        /\ { r.order_index : r \in rows } = 1..Len(imageFiles(formData))

\* a create submission with two valid images has finished without failure
C11_Witness ==
  /\ pc = "done"
  /\ lastOp = "submit"
  /\ failures = 0
  /\ formData # <<>>
  /\ ProductIdOf(formData) = Nil
  /\ Len(imageFiles(formData)) = 2
  /\ AllFilesValid(formData)
  /\ Cardinality(ProductImages(NewProductId)) = 2

\* the storage path the action removes for a looked-up image
RemovedPath(image) ==
  StoragePath(ProductIdOf(formData), image.uuid, UrlExtension(image.url))

C13_DegradedSuccess ==
  (pc = "done" /\ productResult # Nil)
  => /\ ProductRow(productResult, formData) \in products
     /\ response = Redirect("/productos")

\* a submission has finished after a call of the image steps failed
C13_Witness ==
  /\ pc = "done"
  /\ productResult # Nil
  /\ failures > 0
  /\ \E c \in issued : c.op \in LaterCalls
  /\ response.type = "redirect"

UploadCalls == {"storage.upload", "images.insert"}
DeletionCalls == {"images.select", "storage.remove", "images.delete"}

\* every per-file chain of the submission has returned
ChainsDone == \A k \in 1..Len(chains) : chains[k].pc = "done"

\* C14: a call of the upload step is issued only after the product upsert
\* has completed and before any deletion or position update; a call of the
\* deletion step only after every per-file chain has completed and before
\* any position update; a position update only after every chain and every
\* deletion operation has completed
C14_PhaseOrdering ==
  [][\A c \in issued' \ issued :
       /\ c.op \in UploadCalls
            => /\ productResult # Nil
               /\ \A d \in issued : d.op \notin DeletionCalls /\ d.op # "images.update"
       /\ c.op \in DeletionCalls
            => /\ productResult # Nil
               /\ ChainsDone
               /\ \A d \in issued : d.op # "images.update"
       /\ c.op = "images.update"
            => /\ ChainsDone
               /\ removed = imagesToDelete
               /\ imagesToDelete # {} => \E d \in issued : d.op = "images.delete"]_vars

\* one submission went through the upload, deletion and position phases
C14_Witness ==
  /\ pc = "done"
  /\ \E c \in issued : c.op = "images.insert"
  /\ \E c \in issued : c.op = "images.delete"
  /\ \E c \in issued : c.op = "images.update"

\* C15: when a list carrying 1..N is reordered from position i to position
\* j, reordering the result from j back to i yields the original entries
\* with their original order_index values
C15_ReorderRoundTrip ==
  [][(lastOp' = "reorder" /\ Dense(orderedImages))
       => \A i \in 0..(Len(orderedImages) - 1), j \in 0..(Len(orderedImages) - 1) :
            orderedImages' = reorder(orderedImages, i, j)
              => reorder(orderedImages', j, i) = orderedImages]_vars

\* a drag has moved the staged entry of a three-entry list to the front
C15_Witness ==
  /\ lastOp = "reorder"
  /\ Len(orderedImages) = 3
  /\ orderedImages[1].type = "new"
  /\ orderedImages[2].id = E1
  /\ orderedImages[3].id = E2
  /\ Dense(orderedImages)

\* C16: the payload of a submission holds, for the entry at display
\* position i, one field images[i].order_index with that entry's
\* order_index, and one field images[i].id with its id exactly when the
\* entry is an existing one; it holds no indexed field beyond the entries
C16_Serialization ==
  [][(lastOp # "submit" /\ lastOp' = "submit")
       => /\ \A i \in 1..Len(orderedImages) :
               /\ Len(getAll(request', "images", i - 1, "order_index")) = 1
               /\ parseInt(get(request', "images", i - 1, "order_index"))
                    = orderedImages[i].order_index
               /\ IF orderedImages[i].type = "existing"
                  THEN getAll(request', "images", i - 1, "id") = << <<orderedImages[i].id>> >>
                  ELSE Missing(request', "images", i - 1, "id")
          /\ \A k \in 1..Len(request') :
               (request'[k].base = "images" /\ request'[k].index # Nil)
                 => request'[k].index \in 0..(Len(orderedImages) - 1)]_vars

\* a form holding a staged entry before an existing one was submitted
C16_Witness ==
  /\ lastOp = "submit"
  /\ ~Missing(request, "images", 0, "order_index")
  /\ Missing(request, "images", 0, "id")
  /\ ~Missing(request, "images", 1, "id")
  /\ get(request, "images", 1, "id") = <<E1>>

\* the image rows inserted for the k-th file of the submission
RowsOfFile(k) == { r \in images : r.uuid = randomUUID(k) }

\* the storage path of the k-th file of the submission
PathOfFile(k) ==
  StoragePath(productResult, randomUUID(k), FileExtension(imageFiles(formData)[k].name))

\* the files of the submission that are images and have no row
ValidFilesWithoutRow ==
  { k \in 1..Len(chains) : imageFiles(formData)[k].type[1] = "image" /\ RowsOfFile(k) = {} }

\* C17: a file has at most one row, and a row only together with its
\* uploaded blob and the public URL of that blob; a file that is not an
\* image has neither; once every chain has returned, each failed call has
\* cost at most one file its row, and a file has its row exactly when its
\* own chain returned a URL
C17_PerFileIndependence ==
  /\ \A k \in 1..Len(chains) :
       /\ Cardinality(RowsOfFile(k)) <= 1
       /\ \A r \in RowsOfFile(k) :
            /\ PathOfFile(k) \in blobs
            /\ r.url = PublicUrl(PathOfFile(k))
            /\ Call("storage.upload", k - 1, Nil, productResult) \in issued
       /\ imageFiles(formData)[k].type[1] # "image"
            => (RowsOfFile(k) = {} /\ PathOfFile(k) \notin blobs)
  /\ (Len(chains) > 0 /\ ChainsDone)
       => /\ Cardinality(ValidFilesWithoutRow) <= failures
          /\ \A k \in 1..Len(chains) : (chains[k].result # <<>>) <=> (RowsOfFile(k) # {})

\* the chain of the first of two valid images failed and the second image
\* has its blob and its row
C17_Witness ==
  /\ pc = "done"
  /\ Len(chains) = 2
  /\ AllFilesValid(formData)
  /\ chains[1].result = <<>>
  /\ RowsOfFile(1) = {}
  /\ RowsOfFile(2) # {}
  /\ PathOfFile(2) \in blobs

\* C18: the object URL of a staged entry is never revoked a second time,
\* and it has been revoked once the entry was removed or the form unmounted
C18_PreviewReleasedOnce ==
  /\ revokedAgain = {}
  /\ \A k \in 1..nextNew :
       (generateUniqueId(k) \notin Ids(orderedImages) \/ lastOp = "unmount")
         => generateUniqueId(k) \in revoked

\* the entries of a sequence without their order_index
Identity(list) ==
  [k \in 1..Len(list) |->
     [id |-> list[k].id, url |-> list[k].url, type |-> list[k].type, file |-> list[k].file]]

\* C19: when a staged entry is removed, the remaining entries keep their
\* id, url, type, data and relative order; only order_index may change
C19_RemoveStagedKeepsOthers ==
  [][lastOp' = "remove"
       => \A i \in 1..Len(orderedImages) :
            (orderedImages[i].type = "new" /\ orderedImages[i].id \notin Ids(orderedImages'))
              => Identity(orderedImages') = Identity(RemoveAt(orderedImages, i))]_vars

\* the staged entry was removed from a list that keeps its two existing
\* entries
C19_Witness ==
  /\ lastOp = "remove"
  /\ nextNew = 1
  /\ Len(orderedImages) = 2
  /\ orderedImages[1].id = E1
  /\ orderedImages[2].id = E2

\* C20: adding files grows the sequence by the number of selected files,
\* leaves the entries already present in place with their identity, and
\* appends one staged entry per file, in the order of the selection
C20_AddAppends ==
  [][lastOp' = "add"
       => LET n == Len(orderedImages)
              m == Len(inputFiles')
          IN /\ Len(orderedImages') = n + m
             /\ Identity(SubSeq(orderedImages', 1, n)) = Identity(orderedImages)
             /\ \A k \in 1..m :
                  /\ orderedImages'[n + k].type = "new"
                  /\ orderedImages'[n + k].file = FileRef(nextNew + k)
                  /\ orderedImages'[n + k].id \notin Ids(orderedImages)
                  /\ \A j \in 1..m : j # k => orderedImages'[n + j].id # orderedImages'[n + k].id]_vars

\* two files were added to a form that held one existing entry
C20_Witness ==
  /\ lastOp = "add"
  /\ Len(inputFiles) = 2
  /\ Len(orderedImages) = 3
  /\ orderedImages[1].id = E1
  /\ orderedImages[2].type = "new"
  /\ orderedImages[3].type = "new"

(* --- the initial state of the client order model --- *)
\* the persisted image carries a position
HasIndex(img) == img.order_index # Nil /\ img.order_index # Null

\* display position of the entry built from a persisted image
PositionOf(id) == CHOOSE k \in 1..Len(orderedImages) : orderedImages[k].id = id

\* C21: when the form opens, the persisted images are shown by order_index
\* ascending, every image without an order_index after every image that has
\* one, and the images without an order_index in their original relative order
C21_InitialSort ==
  lastOp = "init" =>
    /\ Len(orderedImages) = Len(defaultImages)
    /\ Ids(orderedImages) = Ids(defaultImages)
    /\ \A i \in 1..Len(defaultImages), j \in 1..Len(defaultImages) :
         LET a == defaultImages[i]
             b == defaultImages[j]
         IN /\ (HasIndex(a) /\ HasIndex(b) /\ a.order_index < b.order_index)
                 => PositionOf(a.id) < PositionOf(b.id)
            /\ (HasIndex(a) /\ ~HasIndex(b)) => PositionOf(a.id) < PositionOf(b.id)
            /\ (~HasIndex(a) /\ ~HasIndex(b) /\ i < j)
                 => PositionOf(a.id) < PositionOf(b.id)

(* --- the outcome of the sibling operations --- *)
\* the call op about id returned an error in this submission
Failed(op, id) == [op |-> op, id |-> id] \in failed

\* the upload step takes the k-th file: it is an image within the size limit
Accepted(k) ==
  /\ imageFiles(formData)[k].type[1] = "image"
  /\ imageFiles(formData)[k].size <= MAX_FILE_SIZE

\* the row the chain of the k-th file inserts
ExpectedRow(k) ==
  [id |-> NewImageId(k), uuid |-> randomUUID(k), url |-> PublicUrl(PathOfFile(k)),
   product_id |-> productResult, order_index |-> InsertedOrderIndex(formData, k - 1)]

\* the files whose blob was stored, and those whose row was inserted
StoredFiles == { k \in 1..Len(chains) : Accepted(k) /\ ~Failed("storage.upload", k) }
InsertedFiles ==
  { k \in StoredFiles : ~Failed("storage.getPublicUrl", k) /\ ~Failed("images.insert", k) }

\* order_index of row r when the position-update step starts
OrderBefore(r) ==
  IF \E b \in before.images : b.id = r.id
  THEN (CHOOSE b \in before.images : b.id = r.id).order_index
  ELSE ExpectedRow(CHOOSE k \in 1..Len(chains) : NewImageId(k) = r.id).order_index

\* the pairs of the form that were written to row r
Written(r) ==
  { k \in 1..Len(imageUpdates) :
      /\ imageUpdates[k].id = r.id
      /\ r.product_id = ProductIdOf(formData)
      /\ ~Failed("images.update", k) }

\* C22: whatever the interleaving and completion order of the per-file chains
\* and of the per-row updates, the rows and blobs after the upload step are
\* those of the files whose calls succeeded, and the order_index of every row
\* after the position-update step is the one of the pair written to it, or
\* the one it had when no pair was written
C22_OrderIndependent ==
  /\ (pc = "upload" /\ ChainsDone)
       => /\ images = before.images \cup { ExpectedRow(k) : k \in InsertedFiles }
          /\ blobs = before.blobs \cup { PathOfFile(k) : k \in StoredFiles }
  /\ (pc = "updating" /\ updated = 1..Len(imageUpdates))
       => \A r \in images :
            IF Written(r) = {} THEN r.order_index = OrderBefore(r)
            ELSE \A k \in Written(r) : r.order_index = imageUpdates[k].order_index

\* two sibling chains have returned, the first without a row and the second
\* with one
C22_Witness ==
  /\ pc = "upload"
  /\ ChainsDone
  /\ Len(chains) = 2
  /\ chains[1].result = <<>>
  /\ chains[2].result # <<>>
  /\ Accepted(1)

RECURSIVE ParamsGetAll(_, _)
ParamsGetAll(params, name) ==
  IF params = <<>> THEN <<>>
  ELSE (IF params[1][1] = name THEN <<params[1][2]>> ELSE <<>>)
       \o ParamsGetAll(SubSeq(params, 2, Len(params)), name)

\* C24: a request whose page number is greater than the number of pages
\* while at least one product matches is answered with a redirect to
\* /productos with page set to 1 and every other search parameter kept
C24_InvalidPageRedirects ==
  LET asked == page.loaded
      pageNumber == NumberOr(asked.params, "page", 1)
      limit == NumberOr(asked.params, "limit", 10)
  IN ( /\ asked.response.type # "none"
       /\ ~asked.throws
       /\ asked.totalProducts > 0
       /\ pageNumber > CeilDiv(asked.totalProducts, limit) )
     => /\ asked.response.type = "redirect"
        /\ ParamsGetAll(asked.response.location, "page") = << <<"1">> >>
        /\ \A name \in {"limit", "q"} :
             ParamsGetAll(asked.response.location, name) = ParamsGetAll(asked.params, name)

(* --- the form and the store, end to end --- *)
\* ids of the persisted entries the submitted form showed
ShownIds ==
  { request[k].value[1] :
      k \in { j \in 1..Len(request) : request[j].base = "images" /\ request[j].prop = "id" } }

\* ids of the rows of the submitted product that existed when the request
\* arrived and still exist
KeptIds ==
  { r.id : r \in { x \in images \cap before.images : x.product_id = ProductIdOf(formData) } }

\* C25: after the form of a product was submitted and every operation of the
\* action succeeded, the persisted rows of the product are those of the
\* entries the form showed: the row and the blob of an image removed in the
\* form are gone
C25_RemovedImageDeleted ==
  ( /\ pc = "done"
    /\ lastOp = "submit"
    /\ failures = 0
    /\ response = Redirect("/productos")
    /\ ProductIdOf(formData) # Nil )
  => /\ KeptIds = ShownIds
     /\ \A b \in before.images :
          (b.product_id = ProductIdOf(formData) /\ b.id \notin ShownIds)
            => b.url \notin blobs

\* the files wrapped by the staged entries of the sequence
StagedRefs == { orderedImages[k].file : k \in { j \in 1..Len(orderedImages) :
                                                  orderedImages[j].type = "new" } }

\* the file sent as the k-th part of the images field: the k-th file of the
\* last selection
SentRef(k) == FileRef(nextNew - Len(inputFiles) + k)

\* C26: the file parts sent at submission correspond one-to-one to the
\* staged entries in the sequence: the file of every staged entry still
\* present is sent exactly once and no file of a removed entry is sent
C26_PartsMatchStagedEntries ==
  [][(lastOp # "submit" /\ lastOp' = "submit")
       => LET parts == imageFiles(request')
          IN /\ { SentRef(k) : k \in 1..Len(parts) } = StagedRefs
             /\ Len(parts) = Cardinality(StagedRefs)]_vars

\* C27: while the form is shown, no staged entry of the sequence has had its
\* object URL revoked
C27_DisplayedPreviewLive ==
  Mounted => revoked \cap NewIds(orderedImages) = {}

(* --- the store across products --- *)
\* C28: a submission for a product leaves every row of the other products
\* in the store with its order_index, whatever ids the payload lists
C28_OtherProductsUntouched ==
  (formData # <<>> /\ ProductIdOf(formData) # Nil)
    => \A b \in before.images :
         b.product_id # ProductIdOf(formData) => b \in images

\* C29: before and after every submission, whatever calls failed in it,
\* every image row has its blob in storage at the path made of its product
\* id, its uuid and its extension
C29_RowHasBlob ==
  pc \in {"idle", "done"}
    => \A r \in images :
         StoragePath(r.product_id, r.uuid, UrlExtension(r.url)) \in blobs

\* C30: whatever the interleaving of edit clicks, drawer closes and
\* completions of the loads of editFetcher, in every render the edit form is
\* shown only with the data of the product currently selected
C30_EditFormOfSelectedProduct ==
  RenderedForm(page).form = "edit" => RenderedForm(page).id = page.editingProductId

\* the data of the product selected first arrived after another product
\* was selected: that render shows no form
C30_Witness ==
  /\ page.editingProductId = P2
  /\ page.editFetcher.state = "idle"
  /\ page.editFetcher.data = ProductData(P1)
  /\ RenderedForm(page).form = "none"
====
